---- MODULE Spec2Model ----
(***************************************************************************)
(* Model of alephdao/agent_builder: the SQLite store of                   *)
(* modules/database.py (PromptDatabase) and the session manager of        *)
(* modules/conversation.py (ConversationManager).                         *)
(*                                                                         *)
(* Encoding of Python / SQL values                                         *)
(*   None / NULL          the empty sequence <<>>                          *)
(*   a present value v    the one-element sequence <<v>>  (Some(v))        *)
(*   text that is ordered a sequence of character codes ("" is <<>>)       *)
(*   datetime.now()       the logical clock `clock`, read and advanced by  *)
(*                        every call                                       *)
(*   a table              the sequence of its rows in rowid order          *)
(***************************************************************************)
EXTENDS Integers, Sequences, FiniteSets, TLC

VARIABLES conversations, messages, generated_prompts, mgr, newconv, documents,
          docSeq, clock, last, chatting

vars == <<conversations, messages, generated_prompts, mgr, newconv, documents,
          docSeq, clock, last, chatting>>

\* ---------------------------------------------------------------- bounds

\* datetime.now() is read at most this many times before the model stops
\* starting conversation-side operations.
MaxClock == 5

\* The same when the store's conversation operations are called directly.
MaxStoreClock == 3

\* The same for document-side operations.
MaxDocClock == 3

\* datetime.now() is read at most this many times before the model stops
\* starting chat turns.
MaxChatClock == 14

\* get_messages / get_context_for_claude are queried with limits 0..MaxLimit.
MaxLimit == 3

\* ---------------------------------------------------------- Python values

None == <<>>

Some(v) == <<v>>

\* Python truthiness of an Optional[int]: None and 0 are falsy.
TruthyInt(o) == o # None /\ o[1] # 0

\* Python truthiness of an Optional[str]: None and "" are falsy.
TruthyStr(o) == o # None /\ o[1] # <<>>

Min(a, b) == IF a <= b THEN a ELSE b

\* ------------------------------------------------------------ input sets

Sessions == {"s1", "s2"}

Managers == {"m1", "m2"}

Roles == {"user", "assistant"}

Contents == {"hi"}

\* Names under which a generated prompt is saved.
PromptNames == {"p"}

AgentNames == {None, Some("bot")}

ChatTexts == {"hi"}

\* Conversation ids passed to the store directly; the store checks none.
ConvIds == {1, 2, 3}

Limits == {None} \cup {Some(k) : k \in 0..MaxLimit}

\* Document names and categories, as character codes: "x", "xy", "y",
\* "a", "b" and the empty text.
NameX == <<120>>

NameXY == <<120, 121>>

NameY == <<121>>

Names == {NameX, NameXY, NameY}

CatA == <<97>>

CatB == <<98>>

Categories == {None, Some(<<>>), Some(CatA), Some(CatB)}

\* Arguments of add_document in the catalogue specification.
DocArgs ==
    {[name |-> n, description |-> d, github_url |-> None, local_path |-> None,
      category |-> c, priority |-> p, source_updated_at |-> None] :
        n \in {NameX, NameY}, d \in {None, Some("d")},
        c \in {None, Some(CatA)}, p \in {0, 10}}

\* Keyword arguments of update_document: allowed columns, columns that are
\* not allowed, unknown names, and none.
Kwargs ==
    {<<>>,
     [priority |-> 99],
     [category |-> Some(CatB)],
     [category |-> None, description |-> Some("e")],
     [github_url |-> Some("u"), source_updated_at |-> Some("t")],
     [local_path |-> Some("p"), bogus |-> 1],
     [bogus |-> 1],
     [id |-> 7, created_at |-> 0, updated_at |-> 0]}

\* Arguments of add_document in the listing specification.
ListArgs ==
    {[name |-> n, description |-> None, github_url |-> None,
      local_path |-> None, category |-> c, priority |-> p,
      source_updated_at |-> None] :
        n \in Names, c \in Categories, p \in {10, 90}}

\* ------------------------------------------------------------------ SQL

\* SELECT ... WHERE p: the rows of a table (a sequence) that satisfy p.
Rows(table) == {table[i] : i \in DOMAIN table}

\* ORDER BY over a set of rows, given the pairs <<x, y>> of rows the ordering
\* terms put x before y: a row's place is the number of rows placed before
\* it.  Rows the terms do not tell apart keep rowid (id) order.
OrderBy(S, less) ==
    LET Before(x, y) ==
            <<x, y>> \in less \/ (<<y, x>> \notin less /\ x.id < y.id)
    IN  [i \in 1..Cardinality(S) |->
            CHOOSE r \in S : Cardinality({x \in S : Before(x, r)}) = i - 1]

\* ORDER BY id ASC
OrderByIdAsc(S) == OrderBy(S, {p \in S \X S : p[1].id < p[2].id})

\* ORDER BY id DESC
OrderByIdDesc(S) == OrderBy(S, {p \in S \X S : p[1].id > p[2].id})

\* SQLite's BINARY collation on text: memcmp, the shorter text first when
\* one is a prefix of the other.
TextLess(a, b) ==
    \E i \in 1..Len(b) :
        /\ \A j \in 1..(i - 1) : j <= Len(a) /\ a[j] = b[j]
        /\ (i > Len(a) \/ a[i] < b[i])

\* Ascending order of a nullable text column: NULL sorts before every text.
NullableTextLess(x, y) ==
    \/ x = None /\ y # None
    \/ x # None /\ y # None /\ TextLess(x[1], y[1])

\* LIMIT k: SQLite treats a negative limit as no limit.
Limit(s, k) == IF k < 0 THEN s ELSE SubSeq(s, 1, Min(k, Len(s)))

\* ------------------------------------------------- PromptDatabase: conversations

\* INSERT INTO conversations (session_id, started_at, agent_name, status)
\* VALUES (?, ?, ?, 'active'); the new id is cursor.lastrowid.
create_conversation(convs, session_id, agent_name, now) ==
    Append(convs, [id         |-> Len(convs) + 1,
                   session_id |-> session_id,
                   started_at |-> now,
                   ended_at   |-> None,
                   agent_name |-> agent_name,
                   status     |-> "active"])

\* end_conversation that stamps ended_at and leaves the status as it was.
end_conversation_KeepsStatus(convs, conversation_id, now) ==
    [i \in DOMAIN convs |->
        IF convs[i].id = conversation_id
        THEN [convs[i] EXCEPT !.ended_at = Some(now)]
        ELSE convs[i]]

\* end_conversation that sets the status and leaves ended_at unset.
end_conversation_NoEndedAt(convs, conversation_id, now) ==
    [i \in DOMAIN convs |->
        IF convs[i].id = conversation_id
        THEN [convs[i] EXCEPT !.status = "completed"]
        ELSE convs[i]]

\* UPDATE conversations SET ended_at = ?, status = 'completed' WHERE id = ?
end_conversation(convs, conversation_id, now) ==
    [i \in DOMAIN convs |->
        IF convs[i].id = conversation_id
        THEN [convs[i] EXCEPT !.ended_at = Some(now), !.status = "completed"]
        ELSE convs[i]]

\* get_active_conversation with ORDER BY id ASC: the oldest active one.
get_active_conversation_Oldest(convs, session_id) ==
    LET rows == Limit(OrderByIdAsc({r \in Rows(convs) :
                        r.session_id = session_id /\ r.status = "active"}), 1)
    IN  IF rows = <<>> THEN None ELSE Some(rows[1])

\* get_active_conversation without the session_id condition.
get_active_conversation_AnySession(convs, session_id) ==
    LET rows == OrderByIdDesc({r \in Rows(convs) : r.status = "active"})
    IN  IF rows = <<>> THEN None ELSE Some(rows[1])

\* SELECT * FROM conversations WHERE session_id = ? AND status = 'active'
\* ORDER BY id DESC LIMIT 1; fetchone() is None when there is no row.
get_active_conversation(convs, session_id) ==
    LET rows == Limit(OrderByIdDesc({r \in Rows(convs) :
                        r.session_id = session_id /\ r.status = "active"}), 1)
    IN  IF rows = <<>> THEN None ELSE Some(rows[1])

\* ------------------------------------------------------ PromptDatabase: messages

\* INSERT INTO messages (conversation_id, role, content, timestamp)
add_message(msgs, conversation_id, role, content, now) ==
    Append(msgs, [id              |-> Len(msgs) + 1,
                  conversation_id |-> conversation_id,
                  role            |-> role,
                  content         |-> content,
                  timestamp       |-> now])

\* get_messages with the rows newest first.
get_messages_Desc(msgs, conversation_id, limit) ==
    LET rows == OrderByIdDesc({r \in Rows(msgs) :
                                 r.conversation_id = conversation_id})
    IN  IF TruthyInt(limit) THEN Limit(rows, limit[1]) ELSE rows

\* SELECT * FROM messages WHERE conversation_id = ? ORDER BY id ASC
\* with " LIMIT {limit}" appended only when `limit` is truthy.
get_messages(msgs, conversation_id, limit) ==
    LET rows == OrderByIdAsc({r \in Rows(msgs) :
                                r.conversation_id = conversation_id})
    IN  IF TruthyInt(limit) THEN Limit(rows, limit[1]) ELSE rows

\* INSERT INTO generated_prompts (conversation_id, name, content, metadata,
\* created_at): the row takes the next id; the conversation id is stored as
\* given (NULL when None).
save_generated_prompt(prompts, name, content, conversation_id, metadata, now) ==
    Append(prompts, [id              |-> Len(prompts) + 1,
                     conversation_id |-> conversation_id,
                     name            |-> name,
                     content         |-> content,
                     metadata        |-> metadata,
                     created_at      |-> now])

\* ------------------------------------------------- PromptDatabase: documents

\* The columns update_document may set (the `allowed` set).
allowed ==
    {"description", "github_url", "local_path", "category", "priority",
     "source_updated_at"}

\* add_document on a table without the UNIQUE constraint on name.
add_document_NoUnique(docs, seq, a, now) ==
    [docs |-> docs \cup
              {[id                |-> seq + 1,
                name              |-> a.name,
                description       |-> a.description,
                github_url        |-> a.github_url,
                local_path        |-> a.local_path,
                category          |-> a.category,
                priority          |-> a.priority,
                source_updated_at |-> a.source_updated_at,
                created_at        |-> now,
                updated_at        |-> now]},
     seq |-> seq + 1, err |-> "", ret |-> Some(seq + 1)]

\* INSERT INTO prompt_documents (...): name is UNIQUE, so a present name
\* raises sqlite3.IntegrityError and the connection rolls back; id is
\* AUTOINCREMENT, one more than the largest id ever used (seq).
add_document(docs, seq, a, now) ==
    IF \E d \in docs : d.name = a.name
    THEN [docs |-> docs, seq |-> seq, err |-> "IntegrityError", ret |-> None]
    ELSE [docs |-> docs \cup
                   {[id                |-> seq + 1,
                     name              |-> a.name,
                     description       |-> a.description,
                     github_url        |-> a.github_url,
                     local_path        |-> a.local_path,
                     category          |-> a.category,
                     priority          |-> a.priority,
                     source_updated_at |-> a.source_updated_at,
                     created_at        |-> now,
                     updated_at        |-> now]},
          seq |-> seq + 1, err |-> "", ret |-> Some(seq + 1)]

\* SELECT * FROM prompt_documents WHERE name = ?; None when there is no row.
get_document(docs, name) ==
    LET rows == {d \in docs : d.name = name}
    IN  IF rows = {} THEN None ELSE Some(CHOOSE d \in rows : TRUE)

\* ORDER BY priority DESC, category, name
ByPriorityCategoryName(x, y) ==
    \/ x.priority > y.priority
    \/ /\ x.priority = y.priority
       /\ \/ NullableTextLess(x.category, y.category)
          \/ x.category = y.category /\ TextLess(x.name, y.name)

\* ORDER BY priority DESC, name
ByPriorityName(x, y) ==
    \/ x.priority > y.priority
    \/ x.priority = y.priority /\ TextLess(x.name, y.name)

\* ORDER BY category, name
ByCategoryName(x, y) ==
    \/ NullableTextLess(x.category, y.category)
    \/ x.category = y.category /\ TextLess(x.name, y.name)

\* ORDER BY name
ByName(x, y) == TextLess(x.name, y.name)

\* list_documents(category, order_by_priority): the category filter applies
\* only when `category` is truthy.
list_documents(docs, category, order_by_priority) ==
    IF TruthyStr(category)
    THEN LET rows == {d \in docs : d.category = category}
         IN  IF order_by_priority
             THEN OrderBy(rows, {p \in rows \X rows : ByPriorityName(p[1], p[2])})
             ELSE OrderBy(rows, {p \in rows \X rows : ByName(p[1], p[2])})
    ELSE IF order_by_priority
         THEN OrderBy(docs, {p \in docs \X docs :
                                ByPriorityCategoryName(p[1], p[2])})
         ELSE OrderBy(docs, {p \in docs \X docs : ByCategoryName(p[1], p[2])})

\* update_document that applies every keyword argument, allowed or not.
update_document_NoAllowList(docs, name, kwargs, now) ==
    IF DOMAIN kwargs = {}
    THEN [docs |-> docs, ret |-> FALSE, clock |-> now]
    ELSE [docs |-> {IF d.name = name
                    THEN [k \in DOMAIN d |->
                            IF k \in DOMAIN kwargs THEN kwargs[k]
                            ELSE IF k = "updated_at" THEN now
                            ELSE d[k]]
                    ELSE d : d \in docs},
          ret |-> TRUE, clock |-> now + 1]

\* update_document(name, **kwargs): keeps the allowed keys; with none left it
\* returns False before touching the store; otherwise it sets them and
\* updated_at on the rows WHERE name = ? and returns True.
update_document(docs, name, kwargs, now) ==
    LET updates == [k \in DOMAIN kwargs \cap allowed |-> kwargs[k]]
    IN  IF DOMAIN updates = {}
        THEN [docs |-> docs, ret |-> FALSE, clock |-> now]
        ELSE [docs |-> {IF d.name = name
                        THEN [k \in DOMAIN d |->
                                IF k \in DOMAIN updates THEN updates[k]
                                ELSE IF k = "updated_at" THEN now
                                ELSE d[k]]
                        ELSE d : d \in docs},
              ret |-> TRUE, clock |-> now + 1]

\* DELETE FROM prompt_documents WHERE name = ?; returns rowcount > 0.
delete_document(docs, name) ==
    [docs |-> {d \in docs : d.name # name},
     ret  |-> \E d \in docs : d.name = name]

\* ------------------------------------------------------- ConversationManager

\* cursor.lastrowid after an INSERT: the id of the row just appended.
lastrowid(table) == table[Len(table)].id

\* _ensure_conversation that creates a conversation without looking for an
\* active one.
cm_ensure_conversation_AlwaysCreate(convs, session_id, now) ==
    LET created == create_conversation(convs, session_id, None, now)
    IN  [convs |-> created, conversation_id |-> Some(lastrowid(created)),
         clock |-> now + 1]

\* _ensure_conversation: adopt the session's active conversation, or create
\* one.  The result is the store's conversations table, the manager's
\* conversation_id and the clock after the call.
cm_ensure_conversation(convs, session_id, now) ==
    LET conv == get_active_conversation(convs, session_id)
    IN  IF conv # None
        THEN [convs |-> convs, conversation_id |-> Some(conv[1].id),
              clock |-> now]
        ELSE LET created == create_conversation(convs, session_id, None, now)
             IN  [convs |-> created,
                  conversation_id |-> Some(lastrowid(created)),
                  clock |-> now + 1]

\* new_conversation that forgets to end the tracked conversation.
cm_new_conversation_NoEnd(convs, session_id, conversation_id, agent_name, now) ==
    LET created == create_conversation(convs, session_id, agent_name, now)
    IN  [convs |-> created, conversation_id |-> Some(lastrowid(created)),
         clock |-> now + 1]

\* new_conversation that creates the conversation first and then ends the
\* one it has just adopted.
cm_new_conversation_EndAfter(convs, session_id, conversation_id, agent_name, now) ==
    LET created == create_conversation(convs, session_id, agent_name, now)
        ended   == end_conversation(created, lastrowid(created), now + 1)
    IN  [convs |-> ended, conversation_id |-> Some(lastrowid(created)),
         clock |-> now + 2]

\* new_conversation: end the tracked conversation (when the tracked id is
\* truthy), then create a conversation for the same session and track it.
cm_new_conversation(convs, session_id, conversation_id, agent_name, now) ==
    LET ends    == TruthyInt(conversation_id)
        ended   == IF ends THEN end_conversation(convs, conversation_id[1], now)
                           ELSE convs
        now2    == IF ends THEN now + 1 ELSE now
        created == create_conversation(ended, session_id, agent_name, now2)
    IN  [convs |-> created, conversation_id |-> Some(lastrowid(created)),
         clock |-> now2 + 1]

\* add_message: ensure a conversation when none is tracked, then
\* db.add_message(self.conversation_id, role, content).
cm_add_message(convs, msgs, session_id, conversation_id, role, content, now) ==
    LET e == IF ~TruthyInt(conversation_id)
             THEN cm_ensure_conversation(convs, session_id, now)
             ELSE [convs |-> convs, conversation_id |-> conversation_id,
                   clock |-> now]
    IN  [convs |-> e.convs, conversation_id |-> e.conversation_id,
         msgs  |-> add_message(msgs, e.conversation_id[1], role, content, e.clock),
         clock |-> e.clock + 1]

\* get_messages: [] when no conversation is tracked, else the store's answer.
cm_get_messages(msgs, conversation_id, limit) ==
    IF ~TruthyInt(conversation_id) THEN <<>>
    ELSE get_messages(msgs, conversation_id[1], limit)

\* The lines with the two role labels exchanged.
context_lines_Swapped(msgs, conversation_id, limit) ==
    LET ms == cm_get_messages(msgs, conversation_id, limit)
    IN  [i \in 1..Len(ms) |->
            (IF ms[i].role = "user" THEN "Assistant" ELSE "User")
                \o ": " \o ms[i].content]

\* The `lines` list of get_context_for_claude: one "<Role>: <content>" line
\* per message of get_messages(limit), in that order.
context_lines(msgs, conversation_id, limit) ==
    LET ms == cm_get_messages(msgs, conversation_id, limit)
    IN  [i \in 1..Len(ms) |->
            (IF ms[i].role = "user" THEN "User" ELSE "Assistant")
                \o ": " \o ms[i].content]

RECURSIVE JoinLines(_)
\* "\n".join(lines)
JoinLines(lines) ==
    IF lines = <<>> THEN ""
    ELSE IF Len(lines) = 1 THEN lines[1]
    ELSE lines[1] \o "\n" \o JoinLines(Tail(lines))

\* get_context_for_claude(limit): "" when there are no messages, else the
\* lines joined by newlines.
cm_get_context_for_claude(msgs, conversation_id, limit) ==
    LET ms == cm_get_messages(msgs, conversation_id, limit)
    IN  IF ms = <<>> THEN ""
        ELSE JoinLines(context_lines(msgs, conversation_id, limit))

\* save_prompt(name, content, metadata=None): the store's
\* save_generated_prompt with the tracked conversation id.
cm_save_prompt(prompts, conversation_id, name, content, metadata, now) ==
    save_generated_prompt(prompts, name, content, conversation_id, metadata, now)

\* limit=10 in AgentPromptBuilder.chat
ContextLimit == 10

\* ---------------------------------------------------------------- state

\* newconv[m] is a history variable: the conversation manager m tracked
\* before (a) and the one it got from (b) its latest new_conversation, None
\* while m has not called new_conversation.

\* A manager object that has not been constructed yet.
NoManager == [alive |-> FALSE, session_id |-> "", conversation_id |-> None]

\* What `last` keeps of the operation before the last one.
Brief(l) == [op |-> l.op, mgr |-> l.mgr, ret |-> l.ret]

Init ==
    /\ conversations = <<>>
    /\ messages = <<>>
    /\ generated_prompts = <<>>
    /\ mgr = [m \in Managers |-> NoManager]
    /\ documents = {}
    /\ docSeq = 0
    /\ clock = 0
    /\ newconv = [m \in Managers |-> None]
    /\ chatting = [m \in Managers |-> None]
    /\ last = [op |-> "none", mgr |-> "", ret |-> None,
               prev |-> [op |-> "none", mgr |-> "", ret |-> None]]

\* ---------------------------------------------- ConversationManager actions

\* ConversationManager(db, session_id): __init__ sets the session id, clears
\* conversation_id and runs _ensure_conversation.
Construct(m, s) ==
    /\ clock < MaxClock
    /\ ~mgr[m].alive
    /\ LET e == cm_ensure_conversation(conversations, s, clock)
       IN  /\ conversations' = e.convs
           /\ mgr' = [mgr EXCEPT ![m] = [alive |-> TRUE, session_id |-> s,
                                         conversation_id |-> e.conversation_id]]
           /\ clock' = e.clock
           /\ last' = [op |-> "ensure_conversation", mgr |-> m,
                       before |-> None, ret |-> e.conversation_id,
                       created |-> Len(e.convs) - Len(conversations),
                       prev |-> Brief(last)]
    /\ UNCHANGED <<messages, newconv, documents, docSeq, generated_prompts,
                   chatting>>

\* manager._ensure_conversation() on a constructed manager.
EnsureConversation(m) ==
    /\ clock < MaxClock
    /\ mgr[m].alive
    /\ LET e == cm_ensure_conversation(conversations, mgr[m].session_id, clock)
       IN  /\ conversations' = e.convs
           /\ mgr' = [mgr EXCEPT ![m].conversation_id = e.conversation_id]
           /\ clock' = e.clock
           /\ last' = [op |-> "ensure_conversation", mgr |-> m,
                       before |-> mgr[m].conversation_id,
                       ret |-> e.conversation_id,
                       created |-> Len(e.convs) - Len(conversations),
                       prev |-> Brief(last)]
    /\ UNCHANGED <<messages, newconv, documents, docSeq, generated_prompts,
                   chatting>>

\* manager.new_conversation(agent_name)
NewConversation(m, agent_name) ==
    /\ clock < MaxClock
    /\ mgr[m].alive
    /\ LET r == cm_new_conversation(conversations, mgr[m].session_id,
                                    mgr[m].conversation_id, agent_name, clock)
       IN  /\ conversations' = r.convs
           /\ mgr' = [mgr EXCEPT ![m].conversation_id = r.conversation_id]
           /\ clock' = r.clock
           /\ last' = [op |-> "new_conversation", mgr |-> m,
                       before |-> mgr[m].conversation_id,
                       ret |-> r.conversation_id,
                       prev |-> Brief(last)]
           /\ newconv' = [newconv EXCEPT ![m] =
                             Some([a |-> mgr[m].conversation_id,
                                   b |-> r.conversation_id])]
    /\ UNCHANGED <<messages, documents, docSeq, generated_prompts, chatting>>

\* manager.add_message(role, content)
AddMessage(m, role, content) ==
    /\ clock < MaxClock
    /\ mgr[m].alive
    /\ LET r == cm_add_message(conversations, messages, mgr[m].session_id,
                               mgr[m].conversation_id, role, content, clock)
       IN  /\ conversations' = r.convs
           /\ messages' = r.msgs
           /\ mgr' = [mgr EXCEPT ![m].conversation_id = r.conversation_id]
           /\ clock' = r.clock
           /\ last' = [op |-> "add_message", mgr |-> m,
                       before |-> mgr[m].conversation_id,
                       ret |-> Some(lastrowid(r.msgs)),
                       prev |-> Brief(last)]
    /\ UNCHANGED <<newconv, documents, docSeq, generated_prompts, chatting>>

\* AgentPromptBuilder.chat(user_input) up to its await: the history is read
\* with limit=10 and the user message is stored; the turn then waits for the
\* agent.  run() starts a turn only when the previous one is over.
ChatSend(m, user_input) ==
    /\ clock < MaxChatClock
    /\ mgr[m].alive
    /\ chatting[m] = None
    /\ LET history == context_lines(messages, mgr[m].conversation_id,
                                    Some(ContextLimit))
           u == cm_add_message(conversations, messages, mgr[m].session_id,
                               mgr[m].conversation_id, "user", user_input, clock)
       IN  /\ conversations' = u.convs
           /\ messages' = u.msgs
           /\ mgr' = [mgr EXCEPT ![m].conversation_id = u.conversation_id]
           /\ clock' = u.clock
           /\ chatting' = [chatting EXCEPT
                              ![m] = Some([history |-> history,
                                           before |-> mgr[m].conversation_id])]
    /\ UNCHANGED <<newconv, documents, docSeq, generated_prompts, last>>

\* chat after its await, the agent having answered `response`: the answer is
\* stored and the turn is over.
ChatReply(m, response) ==
    /\ mgr[m].alive
    /\ chatting[m] # None
    /\ LET a == cm_add_message(conversations, messages, mgr[m].session_id,
                               mgr[m].conversation_id, "assistant", response,
                               clock)
       IN  /\ conversations' = a.convs
           /\ messages' = a.msgs
           /\ mgr' = [mgr EXCEPT ![m].conversation_id = a.conversation_id]
           /\ clock' = a.clock
           /\ last' = [op |-> "chat", mgr |-> m,
                       before |-> chatting[m][1].before,
                       ret |-> chatting[m][1].history,
                       prev |-> Brief(last)]
    /\ chatting' = [chatting EXCEPT ![m] = None]
    /\ UNCHANGED <<newconv, documents, docSeq, generated_prompts>>

\* chat whose agent call raises (client.query or receive_response): run()
\* logs the error and reads the next input; the user message stays stored
\* and no answer is.
ChatFail(m) ==
    /\ mgr[m].alive
    /\ chatting[m] # None
    /\ chatting' = [chatting EXCEPT ![m] = None]
    /\ UNCHANGED <<conversations, messages, generated_prompts, mgr, newconv,
                   documents, docSeq, clock, last>>

\* ConversationManager.get_messages(limit): a read; nothing is written.
GetMessages(m, limit) ==
    /\ clock < MaxClock
    /\ mgr[m].alive
    /\ last' = [op |-> "get_messages", mgr |-> m,
                before |-> mgr[m].conversation_id,
                ret |-> cm_get_messages(messages, mgr[m].conversation_id, limit),
                prev |-> Brief(last)]
    /\ UNCHANGED <<conversations, messages, generated_prompts, mgr, newconv,
                   documents, docSeq, clock, chatting>>

\* ConversationManager.save_prompt(name, content): one row of
\* generated_prompts for the tracked conversation.
SavePrompt(m, name, content) ==
    /\ clock < MaxClock
    /\ mgr[m].alive
    /\ generated_prompts' = cm_save_prompt(generated_prompts,
                                           mgr[m].conversation_id,
                                           name, content, None, clock)
    /\ clock' = clock + 1
    /\ last' = [op |-> "save_prompt", mgr |-> m,
                before |-> mgr[m].conversation_id,
                ret |-> Some(lastrowid(generated_prompts')),
                prev |-> Brief(last)]
    /\ UNCHANGED <<conversations, messages, mgr, newconv, documents, docSeq,
                   chatting>>

\* ------------------------------------------------- PromptDatabase actions

\* db.create_conversation(session_id, agent_name) called on the store.
CreateConversation(s, agent_name) ==
    /\ clock < MaxClock
    /\ conversations' = create_conversation(conversations, s, agent_name, clock)
    /\ clock' = clock + 1
    /\ last' = [op |-> "db.create_conversation", mgr |-> "", session_id |-> s,
                ret |-> Len(conversations) + 1, prev |-> Brief(last)]
    /\ UNCHANGED <<messages, mgr, newconv, documents, docSeq, generated_prompts,
                   chatting>>

\* db.end_conversation(conversation_id) called on the store; the id need not
\* name a row.
EndConversation(id) ==
    /\ clock < MaxClock
    /\ conversations' = end_conversation(conversations, id, clock)
    /\ clock' = clock + 1
    /\ last' = [op |-> "db.end_conversation", mgr |-> "", id |-> id,
                ret |-> None, prev |-> Brief(last)]
    /\ UNCHANGED <<messages, mgr, newconv, documents, docSeq, generated_prompts,
                   chatting>>

\* db.add_message(conversation_id, role, content) called on the store; the
\* foreign key is not enforced, so the id need not name a conversation.
StoreAddMessage(id, role, content) ==
    /\ clock < MaxClock
    /\ messages' = add_message(messages, id, role, content, clock)
    /\ clock' = clock + 1
    /\ last' = [op |-> "db.add_message", mgr |-> "", id |-> id,
                ret |-> Len(messages) + 1, prev |-> Brief(last)]
    /\ UNCHANGED <<conversations, mgr, newconv, documents, docSeq, generated_prompts,
                   chatting>>

\* db.add_document(name, description, github_url, local_path, category,
\* priority, source_updated_at)
AddDocument(a) ==
    /\ clock < MaxDocClock
    /\ LET r == add_document(documents, docSeq, a, clock)
       IN  /\ documents' = r.docs
           /\ docSeq' = r.seq
           /\ last' = [op |-> "db.add_document", mgr |-> "", name |-> a.name,
                       err |-> r.err, ret |-> r.ret, before |-> documents,
                       prev |-> Brief(last)]
    /\ clock' = clock + 1
    /\ UNCHANGED <<conversations, messages, mgr, newconv, generated_prompts,
                   chatting>>

\* db.update_document(name, **kwargs)
UpdateDocument(name, kwargs) ==
    /\ clock < MaxDocClock
    /\ LET r == update_document(documents, name, kwargs, clock)
       IN  /\ documents' = r.docs
           /\ clock' = r.clock
           /\ last' = [op |-> "db.update_document", mgr |-> "", name |-> name,
                       kwargs |-> kwargs, ret |-> r.ret, now |-> clock,
                       before |-> documents, prev |-> Brief(last)]
    /\ UNCHANGED <<conversations, messages, mgr, newconv, docSeq, generated_prompts,
                   chatting>>

\* db.delete_document(name)
DeleteDocument(name) ==
    /\ clock < MaxDocClock
    /\ LET r == delete_document(documents, name)
       IN  /\ documents' = r.docs
           /\ last' = [op |-> "db.delete_document", mgr |-> "", name |-> name,
                       ret |-> r.ret, prev |-> Brief(last)]
    /\ UNCHANGED <<conversations, messages, mgr, newconv, docSeq, clock, generated_prompts,
                   chatting>>

\* ------------------------------------------------------- specifications

\* The public operations of the session managers.
Next ==
    \/ \E m \in Managers, s \in Sessions : Construct(m, s)
    \/ \E m \in Managers, a \in AgentNames : NewConversation(m, a)
    \/ \E m \in Managers, r \in Roles, c \in Contents : AddMessage(m, r, c)

Spec == Init /\ [][Next]_vars

\* The managers' operations with the reads and save_prompt.
IsoNext ==
    \/ \E m \in Managers, s \in Sessions : Construct(m, s)
    \/ \E m \in Managers, a \in AgentNames : NewConversation(m, a)
    \/ \E m \in Managers, r \in Roles, c \in Contents : AddMessage(m, r, c)
    \/ \E m \in Managers, l \in Limits : GetMessages(m, l)
    \/ \E m \in Managers, n \in PromptNames, c \in Contents : SavePrompt(m, n, c)

SpecIsolation == Init /\ [][IsoNext]_vars

\* The same with _ensure_conversation also called on constructed managers.
EnsureNext ==
    \/ \E m \in Managers, s \in Sessions : Construct(m, s)
    \/ \E m \in Managers : EnsureConversation(m)
    \/ \E m \in Managers, a \in AgentNames : NewConversation(m, a)
    \/ \E m \in Managers, r \in Roles, c \in Contents : AddMessage(m, r, c)

SpecEnsure == Init /\ [][EnsureNext]_vars

\* The session managers together with direct calls of the store's
\* conversation and message operations.
StoreNext ==
    \/ \E m \in Managers, s \in Sessions :
          clock < MaxStoreClock /\ Construct(m, s)
    \/ \E m \in Managers :
          clock < MaxStoreClock /\ EnsureConversation(m)
    \/ \E m \in Managers, a \in AgentNames :
          clock < MaxStoreClock /\ NewConversation(m, a)
    \/ \E m \in Managers, r \in Roles, c \in Contents :
          clock < MaxStoreClock /\ AddMessage(m, r, c)
    \/ \E s \in Sessions, a \in AgentNames :
          clock < MaxStoreClock /\ CreateConversation(s, a)
    \/ \E id \in ConvIds :
          clock < MaxStoreClock /\ EndConversation(id)
    \/ \E id \in ConvIds, r \in Roles, c \in Contents :
          clock < MaxStoreClock /\ StoreAddMessage(id, r, c)

SpecStore == Init /\ [][StoreNext]_vars

\* The application: one manager, the /new command and chat turns; run()
\* handles a command only between turns.
ChatNext ==
    \/ \E s \in Sessions : Construct("m1", s)
    \/ chatting["m1"] = None /\ NewConversation("m1", None)
    \/ \E u \in ChatTexts : ChatSend("m1", u)
    \/ \E r \in ChatTexts : ChatReply("m1", r)
    \/ ChatFail("m1")

SpecChat == Init /\ [][ChatNext]_vars

\* The document catalogue: add, update, delete.
DocNext ==
    \/ \E a \in DocArgs : AddDocument(a)
    \/ \E n \in {NameX, NameY}, k \in Kwargs : UpdateDocument(n, k)
    \/ \E n \in {NameX, NameY} : DeleteDocument(n)

SpecDocs == Init /\ [][DocNext]_vars

\* The document catalogue filled and emptied in every order, for listing.
ListNext ==
    \/ \E a \in ListArgs : AddDocument(a)
    \/ \E n \in Names : DeleteDocument(n)

SpecList == Init /\ [][ListNext]_vars

\* ---------------------------------------------------------------- claims

\* The active conversations of a session.
ActiveOf(s) == {r \in Rows(conversations) :
                    r.session_id = s /\ r.status = "active"}

\* C1: each session_id has at most one conversation with status active, in
\* every state reached through session-manager operations, several managers
\* on one session included.
C1_AtMostOneActive == \A s \in Sessions : Cardinality(ActiveOf(s)) <= 1

\* C2: new_conversation on a manager tracking A returns B # A, leaves A
\* completed and B active, and every later add_message of that manager (up to
\* its next new_conversation) stores a message with conversation_id B.
C2_NewConversationSwitches ==
    /\ last.op = "new_conversation" =>
          LET A == last.before[1]
              B == last.ret[1]
          IN  /\ B # A
              /\ conversations[A].status = "completed"
              /\ conversations[B].status = "active"
              /\ mgr[last.mgr].conversation_id = Some(B)
    /\ (last.op = "add_message" /\ newconv[last.mgr] # None) =>
          LET n == newconv[last.mgr][1]
              stored == messages[Len(messages)]
          IN  /\ stored.id = last.ret[1]
              /\ stored.conversation_id = n.b[1]
              /\ stored.conversation_id # n.a[1]

\* C2's case: a manager adds a message after its new_conversation, while
\* another manager of the same session still tracks the ended conversation.
C2_Witness ==
    /\ last.op = "add_message"
    /\ newconv[last.mgr] # None
    /\ \E m \in Managers :
          /\ m # last.mgr
          /\ mgr[m].alive
          /\ mgr[m].session_id = mgr[last.mgr].session_id
          /\ mgr[m].conversation_id = newconv[last.mgr][1].a

\* The messages appended to conversation c, in the order they were appended.
AppendedTo(table, c) ==
    LET InC(m) == m.conversation_id = c IN SelectSeq(table, InC)

\* C3: get_messages(c, None) is exactly the messages appended to c in append
\* order, and get_messages(c, k) is the first min(k, n) of them for every
\* k >= 0.
C3_GetMessagesFirstK ==
    \A c \in ConvIds, l \in Limits :
        LET all == AppendedTo(messages, c)
        IN  get_messages(messages, c, l) =
                IF l = None THEN all
                ELSE SubSeq(all, 1, Min(l[1], Len(all)))

\* The line get_context_for_claude writes for a message.
Rendered(m) ==
    (IF m.role = "user" THEN "User" ELSE "Assistant") \o ": " \o m.content

\* C4: the transcript a chat turn reads holds the `limit` most recent
\* messages of the conversation whenever it has more than `limit` messages.
\* (A turn waiting for the agent has read its history and then stored one
\* message, the user's.)
C4_ChatContextIsRecent ==
    \A m \in Managers :
        chatting[m] # None =>
            LET prior == AppendedTo(SubSeq(messages, 1, Len(messages) - 1),
                                    chatting[m][1].before[1])
                n == Len(prior)
            IN  n > ContextLimit =>
                    chatting[m][1].history =
                        [i \in 1..ContextLimit |->
                            Rendered(prior[n - ContextLimit + i])]

\* The last operation was update_document with at least one allowed field.
UpdateApplied ==
    last.op = "db.update_document" /\ DOMAIN last.kwargs \cap allowed # {}

\* C5: update_document on a name that no document has returns false, for
\* every non-empty set of allowed fields, and changes nothing.
C5_UpdateMissingReturnsFalse ==
    (UpdateApplied /\ ~\E d \in last.before : d.name = last.name) =>
        last.ret = FALSE /\ documents = last.before

\* C6: add_document with a name that is present fails with the duplicate-name
\* error, adds no row and leaves every document as it was; document names
\* stay unique.
C6_DuplicateNameRejected ==
    /\ (last.op = "db.add_document" /\ \E d \in last.before : d.name = last.name) =>
          /\ last.err = "IntegrityError"
          /\ last.ret = None
          /\ documents = last.before
    /\ \A d1 \in documents, d2 \in documents : d1.name = d2.name => d1 = d2
    /\ \A d \in documents : d.id <= docSeq

\* C6's case: a duplicate add was refused while another document exists too.
C6_Witness ==
    /\ last.op = "db.add_document"
    /\ last.err = "IntegrityError"
    /\ Cardinality(documents) = 2

\* C8: update_document on a present document changes exactly the passed
\* allowed attributes of that document and its updated_at; with no allowed
\* field passed it returns false and writes nothing.
C8_UpdateFrame ==
    last.op = "db.update_document" =>
        LET passed == DOMAIN last.kwargs \cap allowed
        IN  IF passed = {}
            THEN last.ret = FALSE /\ documents = last.before
            ELSE /\ Cardinality(documents) = Cardinality(last.before)
                 /\ \A d \in last.before :
                       IF d.name # last.name THEN d \in documents
                       ELSE \E e \in documents :
                               /\ e.id = d.id
                               /\ \A k \in DOMAIN d :
                                     e[k] = IF k \in passed THEN last.kwargs[k]
                                            ELSE IF k = "updated_at" THEN last.now
                                            ELSE d[k]
                               /\ e.updated_at > d.updated_at

\* C8's case: an update with an allowed and an unknown field changed a
\* document while another document exists.
C8_Witness ==
    /\ UpdateApplied
    /\ DOMAIN last.kwargs \ allowed # {}
    /\ \E d \in last.before : d.name = last.name
    /\ \E d \in last.before : d.name # last.name
    /\ documents # last.before

\* r lists exactly the documents of S, each once.
ListsExactly(r, S) ==
    /\ Len(r) = Cardinality(S)
    /\ {r[i] : i \in DOMAIN r} = S

\* r is in the order: descending priority, then category (when byCategory),
\* then name.
InListingOrder(r, byCategory) ==
    \A i \in 1..(Len(r) - 1) :
        LET x == r[i]
            y == r[i + 1]
        IN  \/ x.priority > y.priority
            \/ /\ x.priority = y.priority
               /\ byCategory
               /\ NullableTextLess(x.category, y.category)
            \/ /\ x.priority = y.priority
               /\ (byCategory => x.category = y.category)
               /\ TextLess(x.name, y.name)

\* C7 for one category filter c (None: no filter).
ListingCorrectFor(c) ==
    LET r == list_documents(documents, c, TRUE)
    IN  IF c = None
        THEN ListsExactly(r, documents) /\ InListingOrder(r, TRUE)
        ELSE /\ ListsExactly(r, {d \in documents : d.category = c})
             /\ InListingOrder(r, FALSE)

\* C7: list_documents() returns all documents by descending priority, then
\* category, then name; list_documents(category=c) returns exactly the
\* documents of category c by descending priority, then name; whatever the
\* insertion order.
C7_ListingOrder == \A c \in Categories : ListingCorrectFor(c)

\* What the code does keep of C7: the listing is correct without a filter
\* and for every category that is not the empty text.
ListingCorrectForNamedCategories ==
    \A c \in Categories \ {Some(<<>>)} : ListingCorrectFor(c)

\* C9: _ensure_conversation run twice in a row for a session, with no
\* new_conversation in between, leaves the tracked conversation id as the
\* first run left it, and the second run creates no conversation row.
C9_EnsureIdempotent ==
    (/\ last.op = "ensure_conversation"
     /\ last.prev.op = "ensure_conversation"
     /\ mgr[last.prev.mgr].session_id = mgr[last.mgr].session_id) =>
        /\ last.ret = last.prev.ret
        /\ last.created = 0
        /\ mgr[last.mgr].conversation_id = last.prev.ret

\* C9's case: one manager ran _ensure_conversation twice in a row while it
\* tracked a conversation that another manager had ended.
C9_Witness ==
    /\ last.op = "ensure_conversation"
    /\ last.prev.op = "ensure_conversation"
    /\ last.prev.mgr = last.mgr
    /\ last.before = last.ret
    /\ \E c \in Rows(conversations) :
          c.status = "completed" /\ c.session_id = mgr[last.mgr].session_id

\* C10: get_active_conversation(s) is the conversation with the greatest id
\* among the active ones of session s, None when there is none; right after
\* create_conversation(s) returned c it is conversation c, of session s,
\* active.
C10_GetActiveIsGreatest ==
    /\ \A s \in Sessions :
          LET r == get_active_conversation(conversations, s)
          IN  IF ActiveOf(s) = {} THEN r = None
              ELSE /\ r # None
                   /\ r[1] \in ActiveOf(s)
                   /\ \A c \in ActiveOf(s) : c.id <= r[1].id
    /\ last.op = "db.create_conversation" =>
          LET r == get_active_conversation(conversations, last.session_id)
          IN  /\ r # None
              /\ r[1].id = last.ret
              /\ r[1].session_id = last.session_id
              /\ r[1].status = "active"

\* C10's case: create_conversation(s) has just returned while s already had
\* an active conversation and another session has a conversation too.
C10_Witness ==
    /\ last.op = "db.create_conversation"
    /\ Cardinality(ActiveOf(last.session_id)) = 2
    /\ \E c \in Rows(conversations) : c.session_id # last.session_id

\* The ids of the conversations that have been ended: end_conversation
\* stamps ended_at on the row it ends.
Ended(convs) == {i \in DOMAIN convs : convs[i].ended_at # None}

\* The session's answer of get_active_conversation is not conversation i.
NotActiveAnswer(convs, i) ==
    LET r == get_active_conversation(convs, convs[i].session_id)
    IN  r = None \/ r[1].id # i

\* C11: once end_conversation(id) has run, get_active_conversation of that
\* conversation's session never returns id, in this and every later state;
\* when the session has no other active conversation it returns None, and
\* keeps returning None until a conversation is created for that session.
C11_EndedNeverActiveAgain ==
    [][/\ \A i \in Ended(conversations) :
             /\ i \in Ended(conversations')
             /\ NotActiveAnswer(conversations, i)
             /\ NotActiveAnswer(conversations', i)
       /\ \A i \in Ended(conversations') :
             LET s == conversations'[i].session_id
                 others == {c \in Rows(conversations') :
                               c.session_id = s /\ c.status = "active" /\ c.id # i}
             IN  others = {} => get_active_conversation(conversations', s) = None
       /\ \A s \in Sessions :
             (/\ get_active_conversation(conversations, s) = None
              /\ ~\E c \in Rows(conversations') :
                     c.session_id = s /\ c.id > Len(conversations)) =>
                get_active_conversation(conversations', s) = None]_vars

\* C11's case: end_conversation(id) has just ended a conversation of a
\* session that has another active conversation.
C11_Witness ==
    /\ last.op = "db.end_conversation"
    /\ last.id \in Ended(conversations)
    /\ \E c \in ActiveOf(conversations[last.id].session_id) : c.id # last.id

\* The lines joined by newline characters, built from the left.
JoinedByNewlines(lines) ==
    LET f[i \in 0..Len(lines)] ==
            IF i = 0 THEN ""
            ELSE IF i = 1 THEN lines[1]
            ELSE f[i - 1] \o "\n" \o lines[i]
    IN  f[Len(lines)]

\* C12: get_context_for_claude(limit) is one line per message of
\* get_messages(limit), in that (ascending id) order, "User: <content>" for
\* role user and "Assistant: <content>" for role assistant, joined by
\* newlines; it is the empty text exactly when the tracked conversation has
\* no messages or no conversation is tracked.
C12_ContextRendersMessages ==
    /\ \A l \in Limits : cm_get_context_for_claude(messages, None, l) = ""
    /\ \A m \in Managers, l \in Limits :
          mgr[m].alive =>
              LET id   == mgr[m].conversation_id
                  ms   == get_messages(messages, id[1], l)
                  text == cm_get_context_for_claude(messages, id, l)
              IN  /\ \A i \in 1..Len(ms) :
                         /\ ms[i].role = "user" =>
                                Rendered(ms[i]) = "User: " \o ms[i].content
                         /\ ms[i].role = "assistant" =>
                                Rendered(ms[i]) = "Assistant: " \o ms[i].content
                         /\ i > 1 => ms[i - 1].id < ms[i].id
                  /\ text = JoinedByNewlines([i \in 1..Len(ms) |-> Rendered(ms[i])])
                  /\ (text = "") <=> (AppendedTo(messages, id[1]) = <<>>)

\* C12's case: a manager whose conversation holds a user message followed by
\* an assistant message, rendered as two lines.
C12_Witness ==
    \E m \in Managers :
        /\ mgr[m].alive
        /\ cm_get_context_for_claude(messages, mgr[m].conversation_id, None)
               = "User: hi\nAssistant: hi"
        /\ cm_get_context_for_claude(messages, mgr[m].conversation_id, Some(1))
               = "User: hi"

\* Sequence p is a prefix of sequence q.
IsPrefix(p, q) == Len(p) <= Len(q) /\ SubSeq(q, 1, Len(p)) = p

\* C13: messages are append-only: every step of the store and of the
\* managers leaves each existing message row as it was and in place, gives
\* each new message an id greater than every earlier message id, and, for
\* each conversation and limit, leaves the earlier answer of get_messages a
\* prefix of the later one.
C13_MessagesAppendOnly ==
    [][\/ messages' = messages
       \/ /\ IsPrefix(messages, messages')
          /\ \A i \in (Len(messages) + 1)..Len(messages') :
                \A j \in 1..(i - 1) : messages'[j].id < messages'[i].id
          /\ \A c \in {r.conversation_id : r \in Rows(messages')}, l \in Limits :
                IsPrefix(get_messages(messages, c, l),
                         get_messages(messages', c, l))]_vars

\* C13's case: a message was appended to a conversation that already had
\* one, with a message of another conversation stored in between.
C13_Witness ==
    /\ Len(messages) = 3
    /\ messages[1].conversation_id = messages[3].conversation_id
    /\ messages[2].conversation_id # messages[1].conversation_id
    /\ Len(get_messages(messages, messages[1].conversation_id, None)) = 2

\* A conversation row is active with ended_at unset, or completed with
\* ended_at set.
StatusWellFormed(c) ==
    \/ c.status = "active" /\ c.ended_at = None
    \/ c.status = "completed" /\ c.ended_at # None

\* C14: conversation status is monotonic: every step of the store and of the
\* managers keeps every conversation row (same id, session, start and agent
\* name), changes a status only from active to completed and sets ended_at
\* when it does, never makes a completed conversation active, and creates
\* conversations with status active and ended_at unset.
C14_StatusMonotonic ==
    [][/\ Len(conversations') >= Len(conversations)
       /\ \A i \in DOMAIN conversations :
             LET old == conversations[i]
                 new == conversations'[i]
             IN  /\ StatusWellFormed(old) /\ StatusWellFormed(new)
                 /\ [new EXCEPT !.status = old.status,
                                !.ended_at = old.ended_at] = old
                 /\ old.status = "completed" => new.status = "completed"
                 /\ old.status = "active" =>
                        \/ new = old
                        \/ new.status = "completed" /\ new.ended_at # None
       /\ \A i \in (Len(conversations) + 1)..Len(conversations') :
             /\ conversations'[i].status = "active"
             /\ conversations'[i].ended_at = None]_vars

\* C14's case: a manager has restarted its session: its earlier conversation
\* is completed with ended_at set and a newer one is active.
C14_Witness ==
    /\ last.op = "new_conversation"
    /\ \E i, j \in DOMAIN conversations :
          /\ i < j
          /\ conversations[i].session_id = conversations[j].session_id
          /\ conversations[i].status = "completed"
          /\ conversations[i].ended_at # None
          /\ conversations[j].status = "active"

\* C15: in every state reached through the managers' operations, one or
\* several managers on a session included, a session with exactly one active
\* conversation has it as the conversation of greatest id among all its
\* conversations, active or completed.
C15_SingleActiveIsNewest ==
    \A s \in Sessions :
        Cardinality(ActiveOf(s)) = 1 =>
            \A a \in ActiveOf(s), r \in Rows(conversations) :
                r.session_id = s => r.id <= a.id

\* C15's case: two managers share a session that one of them has restarted:
\* the session has a completed conversation, still tracked by the other
\* manager, and exactly one active conversation.
C15_Witness ==
    \E s \in Sessions :
        /\ Cardinality(ActiveOf(s)) = 1
        /\ \E r \in Rows(conversations) :
              r.session_id = s /\ r.status = "completed"
        /\ \A m \in Managers : mgr[m].alive /\ mgr[m].session_id = s
        /\ mgr["m1"].conversation_id # mgr["m2"].conversation_id

\* C16: whenever a manager's add_message stores a message, the conversation
\* the message is attached to exists, belongs to that manager's session_id
\* and has status active, for every interleaving of the managers' operations,
\* several managers on one session included.
C16_MessageGoesToActiveConversation ==
    last.op = "add_message" =>
        LET stored == messages[last.ret[1]]
        IN  \E c \in Rows(conversations) :
                /\ c.id = stored.conversation_id
                /\ c.session_id = mgr[last.mgr].session_id
                /\ c.status = "active"

\* The session the conversation of this id belongs to, in a table of
\* conversations; None when there is no such conversation.
SessionOf(convs, id) ==
    IF \E c \in Rows(convs) : c.id = id
    THEN Some((CHOOSE c \in Rows(convs) : c.id = id).session_id)
    ELSE None

\* C17: session isolation: every operation of a manager bound to session s
\* (construction, new_conversation, add_message, get_messages, save_prompt)
\* leaves unchanged every conversation of another session and every message
\* of such a conversation, adds no conversation or message to another
\* session, and leaves the manager tracking a conversation of session s.
C17_SessionIsolation ==
    [][LET m == last'.mgr
           s == mgr'[m].session_id
       IN  /\ mgr'[m].alive
           /\ IsPrefix([i \in DOMAIN conversations |->
                           IF conversations[i].session_id = s
                           THEN conversations'[i] ELSE conversations[i]],
                       conversations')
           /\ \A i \in (Len(conversations) + 1)..Len(conversations') :
                 conversations'[i].session_id = s
           /\ Len(messages') >= Len(messages)
           /\ \A i \in DOMAIN messages :
                 SessionOf(conversations, messages[i].conversation_id) # Some(s)
                     => messages'[i] = messages[i]
           /\ \A i \in (Len(messages) + 1)..Len(messages') :
                 SessionOf(conversations', messages'[i].conversation_id) = Some(s)
           /\ mgr'[m].conversation_id # None =>
                 SessionOf(conversations', mgr'[m].conversation_id[1]) = Some(s)]_vars

\* C17's case: a manager restarts its session while another session has a
\* conversation with a message, and its own conversation had one too.
C17_Witness ==
    /\ last.op = "new_conversation"
    /\ \E i, j \in DOMAIN messages :
          /\ SessionOf(conversations, messages[i].conversation_id)
                 = Some(mgr[last.mgr].session_id)
          /\ SessionOf(conversations, messages[j].conversation_id)
                 \notin {None, Some(mgr[last.mgr].session_id)}

====
